---- MODULE Spec2Model ----
(***************************************************************************)
(* Model of the three line-oriented MCP servers of this repository:        *)
(*   minimal-mcp            (src/minimal-mcp-example.js)                    *)
(*   simple-kaggle-mcp      (src/simple-kaggle-mcp.js, lines 1-156)         *)
(*   simple-huggingface-mcp (src/simple-kaggle-mcp.js, lines 157-311)       *)
(* Each server prints a manifest, then answers JSON request lines read     *)
(* from stdin.  The Node.js event loop is modelled explicitly: a 'line'    *)
(* event runs the handler up to its first await, promise continuations run *)
(* from a FIFO microtask queue, and HTTP completions are separate events.  *)
(***************************************************************************)
EXTENDS Integers, Sequences, FiniteSets, TLC

\* Number of input lines a run delivers before stdin is exhausted.
MaxLines == 2

\* The integers given to calculate range over -MaxNum..MaxNum.
MaxNum == 4

\* The JavaScript value undefined (an absent property reads as undefined).
Undefined == "undefined"

Minimal == "minimal-mcp"
Kaggle == "simple-kaggle-mcp"
HuggingFace == "simple-huggingface-mcp"
Servers == {Minimal, Kaggle, HuggingFace}

-----------------------------------------------------------------------------
(* Tool tables and manifests *)

toolsMinimal ==
  << [name |-> "greet", properties |-> {"name"}, required |-> {"name"}],
     [name |-> "calculate", properties |-> {"a", "b", "operation"},
      required |-> {"a", "b", "operation"}] >>

toolsKaggle ==
  << [name |-> "search_datasets", properties |-> {"query", "page"},
      required |-> {"query"}],
     [name |-> "search_competitions", properties |-> {"query", "page"},
      required |-> {"query"}] >>

\* A table whose generate_text requires a parameter it does not declare.
toolsHuggingFace_UndeclaredRequired ==
  << [name |-> "search_models", properties |-> {"query", "limit"},
      required |-> {"query"}],
     [name |-> "generate_text", properties |-> {"model", "prompt", "max_length"},
      required |-> {"model", "inputs"}] >>

toolsHuggingFace ==
  << [name |-> "search_models", properties |-> {"query", "limit"},
      required |-> {"query"}],
     [name |-> "generate_text", properties |-> {"model", "prompt", "max_length"},
      required |-> {"model", "prompt"}] >>

tools(s) ==
  IF s = Minimal THEN toolsMinimal
  ELSE IF s = Kaggle THEN toolsKaggle
  ELSE toolsHuggingFace

ToolNames(s) == {tools(s)[i].name : i \in 1..Len(tools(s))}

\* The object passed to console.log(JSON.stringify(...)) at start-up.
Manifest(s) ==
  [schema_version |-> "v1", name |-> s,
   description |->
     IF s = Minimal THEN "A minimal MCP example with basic functions"
     ELSE IF s = Kaggle THEN "Simple Kaggle API integration"
     ELSE "Simple HuggingFace API integration",
   tools |-> tools(s)]

IsManifest(l) == "schema_version" \in DOMAIN l

-----------------------------------------------------------------------------
(* JavaScript numbers, kept exact as reduced fractions <<numerator, denominator>> *)

Abs(n) == IF n < 0 THEN -n ELSE n

RECURSIVE Gcd(_, _)
Gcd(a, b) == IF b = 0 THEN a ELSE Gcd(b, a % b)

Num(n) == <<n, 1>>

\* a / b for b # 0.
Quotient(a, b) ==
  LET g == Gcd(Abs(a), Abs(b))
      s == IF b < 0 THEN -1 ELSE 1
  IN  IF a = 0 THEN <<0, 1>> ELSE <<(s * a) \div g, Abs(b) \div g>>

-----------------------------------------------------------------------------
(* Promises: the settled outcome of an async function, or a pending call *)

Fulfilled(v) == [state |-> "fulfilled", value |-> v]
Rejected(m) == [state |-> "rejected", message |-> m]
\* Suspended at an await on an HTTP request made through axios.
Pending(call) == [state |-> "pending", call |-> call]

TypeErrorReading(prop) ==
  "Cannot read properties of undefined (reading '" \o prop \o "')"

-----------------------------------------------------------------------------
(* Input lines.  A line is either text that JSON.parse rejects or the text *)
(* of a JSON value; a value is null, a number, or an object whose absent   *)
(* members read as Undefined.                                              *)

NoArgs == [sort |-> "undefined"]
Args(name, a, b, operation) ==
  [sort |-> "object", name |-> name, a |-> a, b |-> b, operation |-> operation]

Object(type, id, name, arguments) ==
  [sort |-> "object", type |-> type, id |-> id, name |-> name,
   arguments |-> arguments]

Text(value) == [wellFormed |-> TRUE, value |-> value]
Malformed == [wellFormed |-> FALSE]

\* Two argument objects: one every tool accepts, one that makes calculate
\* divide by zero; NoArgs is a request without an arguments member.
Accepted == Args("Ada", 4, 2, "divide")
DivideByZero == Args("Ada", 4, 0, "divide")

\* Requests with type "function": both tools, an unknown name, a missing
\* arguments member, a missing id, and ids that differ or coincide.  Only
\* calculate reads a, b and operation, so the division by zero is sent to the
\* minimal server alone.
FunctionLines(s) ==
  { Text(Object("function", "1", tools(s)[1].name, Accepted)),
    Text(Object("function", "2", tools(s)[2].name, Accepted)),
    Text(Object("function", "2", "nope", Accepted)),
    Text(Object("function", Undefined, tools(s)[1].name, Accepted)),
    Text(Object("function", "1", tools(s)[1].name, NoArgs)) }
  \cup
  (IF s = Minimal
   THEN {Text(Object("function", "1", "calculate", DivideByZero))}
   ELSE {})

\* Lines that are not function requests: text that is not JSON, the values
\* null and 5, an object of another type and an object without a type.
OtherLines(s) ==
  { Malformed,
    Text([sort |-> "null"]),
    Text([sort |-> "number"]),
    Text(Object("notification", "1", tools(s)[1].name, Accepted)),
    Text(Object(Undefined, "2", tools(s)[1].name, Accepted)) }

Lines(s) == FunctionLines(s) \cup OtherLines(s)

\* The case labels of calculate's inner switch, and a value that is none.
Operations == {"add", "subtract", "multiply", "divide"}
Numbers == (0 - MaxNum)..MaxNum

\* Every tool name of the three servers, and a name no server lists.
Names == UNION {ToolNames(s) : s \in Servers} \cup {"nope"}

\* A single function request in full breadth: every name with and without
\* arguments and, for the minimal server, calculate over a range of integers
\* and every operation.
RequestLines(s) ==
  { Text(Object("function", "1", name, arguments)) :
      name \in Names, arguments \in {Accepted, NoArgs} }
  \cup
  (IF s = Minimal
   THEN { Text(Object("function", "1", "calculate", Args("Ada", a, b, operation))) :
            a \in Numbers, b \in Numbers,
            operation \in Operations \cup {"modulo"} }
   ELSE {})

\* JSON.parse(line)
JSONparse(line) ==
  IF line.wellFormed
  THEN [threw |-> FALSE, value |-> line.value]
  ELSE [threw |-> TRUE, message |-> "Unexpected token"]

-----------------------------------------------------------------------------
(* Environment: the set of credential variables that are set *)

EnvVars(s) ==
  IF s = Kaggle THEN {"KAGGLE_USERNAME", "KAGGLE_KEY"}
  ELSE IF s = HuggingFace THEN {"HUGGINGFACE_TOKEN"}
  ELSE {}

\* A test that is content with any one of the variables.
CredentialsSet_AnyOne(s, e) == EnvVars(s) \cap e # {}

\* The test  !username || !key  (Kaggle) and  !token  (HuggingFace).
CredentialsSet(s, e) == EnvVars(s) \subseteq e

CredentialsMessage(s) ==
  IF s = Kaggle
  THEN "Kaggle credentials not set. Set KAGGLE_USERNAME and KAGGLE_KEY environment variables."
  ELSE "HuggingFace token not set. Set HUGGINGFACE_TOKEN environment variable."

-----------------------------------------------------------------------------
(* executeFunction of the minimal server: no await, settles at once *)

\* calculate without the test of args.b: the division by zero is carried
\* out (n/0 stands for the Infinity or NaN it yields).
calculate_NoZeroTest(args) ==
  IF args.operation = "add" THEN Fulfilled([result |-> Num(args.a + args.b)])
  ELSE IF args.operation = "subtract" THEN Fulfilled([result |-> Num(args.a - args.b)])
  ELSE IF args.operation = "multiply" THEN Fulfilled([result |-> Num(args.a * args.b)])
  ELSE IF args.operation = "divide"
       THEN IF args.b = 0 THEN Fulfilled([result |-> <<args.a, 0>>])
            ELSE Fulfilled([result |-> Quotient(args.a, args.b)])
  ELSE Rejected("Unknown operation: " \o args.operation)

\* calculate with the operands of the subtraction exchanged.
calculate_SubtractSwapped(args) ==
  IF args.operation = "add" THEN Fulfilled([result |-> Num(args.a + args.b)])
  ELSE IF args.operation = "subtract" THEN Fulfilled([result |-> Num(args.b - args.a)])
  ELSE IF args.operation = "multiply" THEN Fulfilled([result |-> Num(args.a * args.b)])
  ELSE IF args.operation = "divide"
       THEN IF args.b = 0 THEN Rejected("Cannot divide by zero")
            ELSE Fulfilled([result |-> Quotient(args.a, args.b)])
  ELSE Rejected("Unknown operation: " \o args.operation)

\* case 'calculate': the inner switch on args.operation.
calculate(args) ==
  IF args.operation = "add" THEN Fulfilled([result |-> Num(args.a + args.b)])
  ELSE IF args.operation = "subtract" THEN Fulfilled([result |-> Num(args.a - args.b)])
  ELSE IF args.operation = "multiply" THEN Fulfilled([result |-> Num(args.a * args.b)])
  ELSE IF args.operation = "divide"
       THEN IF args.b = 0 THEN Rejected("Cannot divide by zero")
            ELSE Fulfilled([result |-> Quotient(args.a, args.b)])
  ELSE Rejected("Unknown operation: " \o args.operation)

\* executeFunction(name, args = {}): a missing arguments member reads as an
\* empty object, so greet succeeds with an undefined name.
executeFunctionMinimal_DefaultArguments(name, args) ==
  IF name = "greet"
  THEN IF args.sort = "undefined" THEN Fulfilled([message |-> "Hello, undefined!"])
       ELSE Fulfilled([message |-> "Hello, " \o args.name \o "!"])
  ELSE IF name = "calculate"
  THEN IF args.sort = "undefined" THEN Rejected("Unknown operation: undefined")
       ELSE calculate(args)
  ELSE Rejected("Unknown function: " \o name)

\* The minimal server written after the template of the guide: the default
\* case reports the unknown name in a returned object.
executeFunctionMinimal_ReturnsError(name, args) ==
  IF name = "greet"
  THEN IF args.sort = "undefined" THEN Rejected(TypeErrorReading("name"))
       ELSE Fulfilled([message |-> "Hello, " \o args.name \o "!"])
  ELSE IF name = "calculate"
  THEN IF args.sort = "undefined" THEN Rejected(TypeErrorReading("operation"))
       ELSE calculate(args)
  ELSE Fulfilled([error |-> "Unknown function: " \o name])

executeFunctionMinimal(name, args) ==
  IF name = "greet"
  THEN IF args.sort = "undefined" THEN Rejected(TypeErrorReading("name"))
       ELSE Fulfilled([message |-> "Hello, " \o args.name \o "!"])
  ELSE IF name = "calculate"
  THEN IF args.sort = "undefined" THEN Rejected(TypeErrorReading("operation"))
       ELSE calculate(args)
  ELSE Rejected("Unknown function: " \o name)

-----------------------------------------------------------------------------
(* executeFunction of the Kaggle and HuggingFace servers: everything is    *)
(* inside try/catch, and the catch returns { error: error.message }        *)

\* The property of args read first in each case of the switch.
FirstArgument(name) ==
  IF name = "generate_text" THEN "model" ELSE "query"

Endpoint(name) ==
  IF name = "search_datasets" THEN "/datasets/list"
  ELSE IF name = "search_competitions" THEN "/competitions/list"
  ELSE IF name = "search_models" THEN "/models"
  ELSE "/models/{model}"

\* A catch clause that hides the message.
Caught_Opaque(p) ==
  IF p.state = "rejected" THEN Fulfilled([error |-> "Internal error"]) ELSE p

\* catch (error) { return { error: error.message }; }
Caught(p) ==
  IF p.state = "rejected" THEN Fulfilled([error |-> p.message]) ELSE p

\* The try block up to the first await: the credential test, the switch, and
\* the read of args that builds the call (a TypeError when args is undefined).
tryKaggle(e, name, args) ==
  IF ~CredentialsSet(Kaggle, e)
  THEN Fulfilled([error |-> CredentialsMessage(Kaggle)])
  ELSE IF name = "search_datasets" \/ name = "search_competitions"
  THEN IF args.sort = "undefined"
       THEN Rejected(TypeErrorReading(FirstArgument(name)))
       ELSE Pending(Endpoint(name))
  ELSE Rejected("Unknown function: " \o name)

\* A switch that lacks the case for generate_text.
tryHuggingFace_MissingCase(e, name, args) ==
  IF ~CredentialsSet(HuggingFace, e)
  THEN Fulfilled([error |-> CredentialsMessage(HuggingFace)])
  ELSE IF name = "search_models"
  THEN IF args.sort = "undefined"
       THEN Rejected(TypeErrorReading(FirstArgument(name)))
       ELSE Pending(Endpoint(name))
  ELSE Rejected("Unknown function: " \o name)

tryHuggingFace(e, name, args) ==
  IF ~CredentialsSet(HuggingFace, e)
  THEN Fulfilled([error |-> CredentialsMessage(HuggingFace)])
  ELSE IF name = "search_models" \/ name = "generate_text"
  THEN IF args.sort = "undefined"
       THEN Rejected(TypeErrorReading(FirstArgument(name)))
       ELSE Pending(Endpoint(name))
  ELSE Rejected("Unknown function: " \o name)

executeFunctionKaggle(e, name, args) == Caught(tryKaggle(e, name, args))

executeFunctionHuggingFace(e, name, args) == Caught(tryHuggingFace(e, name, args))

\* The body of executeFunction before any catch clause of its own.
tryBlock(s, e, name, args) ==
  IF s = Minimal THEN executeFunctionMinimal(name, args)
  ELSE IF s = Kaggle THEN tryKaggle(e, name, args)
  ELSE tryHuggingFace(e, name, args)

executeFunction(s, e, name, args) ==
  IF s = Minimal THEN executeFunctionMinimal(name, args)
  ELSE IF s = Kaggle THEN executeFunctionKaggle(e, name, args)
  ELSE executeFunctionHuggingFace(e, name, args)

\* What the awaited HTTP request can produce: a body that is an array with
\* one entry, a body that is not an array, or a failure (axios rejects).
Array(items) == [sort |-> "array", items |-> items]
NotArray == [sort |-> "object"]
Body(data) == [ok |-> TRUE, data |-> data]
Failure(m) == [ok |-> FALSE, message |-> m]

Entry(call) ==
  IF call = "/datasets/list"
  THEN [ownerName |-> "o", datasetSlug |-> "d", title |-> "t", size |-> "1KB"]
  ELSE IF call = "/competitions/list"
  THEN [ref |-> "c", title |-> "t", deadline |-> "2030"]
  ELSE IF call = "/models"
  THEN [id |-> "m", modelId |-> "m", downloads |-> "10", likes |-> "1"]
  ELSE [generated_text |-> "text"]

Outcomes(call) ==
  { Body(Array(<<Entry(call)>>)), Body(NotArray),
    Failure("Request failed with status code 401") }

\* The rest of the try block after the await returned or threw.
tryResume(name, outcome) ==
  IF ~outcome.ok THEN Rejected(outcome.message)
  ELSE IF name = "search_datasets"
  THEN IF outcome.data.sort = "array"
       THEN Fulfilled([datasets |->
              [i \in 1..Len(outcome.data.items) |->
                 [ref |-> outcome.data.items[i].ownerName \o "/"
                            \o outcome.data.items[i].datasetSlug,
                  title |-> outcome.data.items[i].title,
                  size |-> outcome.data.items[i].size]]])
       ELSE Rejected("datasets.map is not a function")
  ELSE IF name = "search_competitions"
  THEN IF outcome.data.sort = "array"
       THEN Fulfilled([competitions |->
              [i \in 1..Len(outcome.data.items) |->
                 [ref |-> outcome.data.items[i].ref,
                  title |-> outcome.data.items[i].title,
                  deadline |-> outcome.data.items[i].deadline]]])
       ELSE Rejected("competitions.map is not a function")
  ELSE IF name = "search_models"
  THEN IF outcome.data.sort = "array"
       THEN Fulfilled([models |->
              [i \in 1..Len(outcome.data.items) |->
                 [id |-> outcome.data.items[i].id,
                  name |-> outcome.data.items[i].modelId,
                  downloads |-> outcome.data.items[i].downloads,
                  likes |-> outcome.data.items[i].likes]]])
       ELSE Rejected("models.map is not a function")
  ELSE IF outcome.data.sort = "array"
       THEN Fulfilled([generated_text |-> outcome.data.items[1].generated_text])
       ELSE Rejected(TypeErrorReading("generated_text"))

executeFunctionResume(name, outcome) == Caught(tryResume(name, outcome))

-----------------------------------------------------------------------------
(* The 'line' listener *)

\* A Response that forgets the id.
ResultLine_NoId(id, result) == [result |-> result]

\* JSON.stringify of { id, result } and { id, error }: a member whose value
\* is undefined is left out of the text.
ResultLine(id, result) ==
  IF id = Undefined THEN [result |-> result] ELSE [id |-> id, result |-> result]

ErrorLine(id, message) ==
  IF id = Undefined THEN [error |-> message] ELSE [id |-> id, error |-> message]

\* A test that dispatches every object, whatever its type.
IsFunctionRequest_AnyObject(request) == request.sort = "object"

\* request.type === 'function'; a number has no members.
IsFunctionRequest(request) ==
  request.sort = "object" /\ request.type = "function"

\* A listener that answers a line it cannot parse with an error Response.
onLine_AnswersParseError(s, e, line) ==
  LET parsed == JSONparse(line) IN
  IF parsed.threw
  THEN [dispatched |-> FALSE, stdout |-> <<[error |-> parsed.message]>>,
        stderr |-> <<parsed.message>>]
  ELSE IF parsed.value.sort = "null"
  THEN [dispatched |-> FALSE, stdout |-> <<>>, stderr |-> <<TypeErrorReading("type")>>]
  ELSE IF ~(parsed.value.sort = "object" /\ parsed.value.type = "function")
  THEN [dispatched |-> FALSE, stdout |-> <<>>, stderr |-> <<>>]
  ELSE [dispatched |-> TRUE, stdout |-> <<>>, stderr |-> <<>>,
        request |-> parsed.value,
        promise |-> executeFunction(s, e, parsed.value.name,
                                    parsed.value.arguments)]

\* The listener up to its first await: JSON.parse, the test of request.type
\* (a TypeError when the value is null) and the call of executeFunction.
\* Both exceptions land in the outer catch, which writes to stderr only.
onLine(s, e, line) ==
  LET parsed == JSONparse(line) IN
  IF parsed.threw
  THEN [dispatched |-> FALSE, stdout |-> <<>>, stderr |-> <<parsed.message>>]
  ELSE IF parsed.value.sort = "null"
  THEN [dispatched |-> FALSE, stdout |-> <<>>, stderr |-> <<TypeErrorReading("type")>>]
  ELSE IF ~IsFunctionRequest(parsed.value)
  THEN [dispatched |-> FALSE, stdout |-> <<>>, stderr |-> <<>>]
  ELSE [dispatched |-> TRUE, stdout |-> <<>>, stderr |-> <<>>,
        request |-> parsed.value,
        promise |-> executeFunction(s, e, parsed.value.name,
                                    parsed.value.arguments)]

\* A listener without any try/catch around its await: a rejection escapes.
onLineResume_Uncaught(s, request, promise) ==
  IF promise.state = "fulfilled"
  THEN [stdout |-> <<ResultLine(request.id, promise.value)>>,
        stderr |-> <<>>, uncaught |-> FALSE]
  ELSE [stdout |-> <<>>, stderr |-> <<>>, uncaught |-> TRUE]

\* A listener whose inner try/catch is missing: a rejection is logged by the
\* outer catch and never answered.
onLineResume_NoInnerCatch(s, request, promise) ==
  IF promise.state = "fulfilled"
  THEN [stdout |-> <<ResultLine(request.id, promise.value)>>,
        stderr |-> <<>>, uncaught |-> FALSE]
  ELSE [stdout |-> <<>>, stderr |-> <<promise.message>>, uncaught |-> FALSE]

\* The listener after the await on executeFunction settled.  The minimal
\* server has an inner try/catch that answers a rejection with { id, error };
\* the other two log a rejection in the outer catch.  Every await is inside a
\* try block, so nothing is left uncaught.
onLineResume(s, request, promise) ==
  IF promise.state = "fulfilled"
  THEN [stdout |-> <<ResultLine(request.id, promise.value)>>, stderr |-> <<>>,
        uncaught |-> FALSE]
  ELSE IF s = Minimal
  THEN [stdout |-> <<ErrorLine(request.id, promise.message)>>, stderr |-> <<>>,
        uncaught |-> FALSE]
  ELSE [stdout |-> <<>>, stderr |-> <<promise.message>>, uncaught |-> FALSE]

-----------------------------------------------------------------------------
(* State *)

VARIABLES
  server,      \* which of the three scripts is running
  env,         \* the credential variables set in process.env
  pc,          \* position of the main script, then "ready"; "exited" at the end
  inputOpen,   \* stdin has not reached end-of-input
  input,       \* the lines delivered so far, in arrival order
  handlers,    \* suspended listeners: line number -> [request, promise]
  microtasks,  \* FIFO of line numbers whose listener is ready to continue
  draining,    \* the microtask queue is being run down
  stdout,      \* lines written by console.log
  origin,      \* origin[k]: the input line that caused stdout[k] (0: start-up)
  stderr,      \* diagnostics written by console.error, [line, message]
  called,      \* input lines for which executeFunction was invoked
  requested,   \* input lines for which an HTTP request was started
  atClose,     \* the listeners that were suspended when stdin ended
  thrown,      \* line number -> message of the error raised inside its handler
  settled      \* line number -> outcome of the HTTP request of its handler

vars == << server, env, pc, inputOpen, input, handlers, microtasks, draining,
           stdout, origin, stderr, called, requested, atClose, thrown, settled >>

Init ==
  /\ server \in Servers
  /\ env \in SUBSET EnvVars(server)
  /\ pc = "createInterface"
  /\ inputOpen = TRUE
  /\ input = <<>>
  /\ handlers = <<>>
  /\ microtasks = <<>>
  /\ draining = FALSE
  /\ stdout = <<>>
  /\ origin = <<>>
  /\ stderr = <<>>
  /\ called = {}
  /\ requested = {}
  /\ atClose = {}
  /\ thrown = <<>>
  /\ settled = <<>>

\* f with key k removed / added
Without(f, k) == [j \in DOMAIN f \ {k} |-> f[j]]
With(f, k, v) == [j \in DOMAIN f \cup {k} |-> IF j = k THEN v ELSE f[j]]

Tag(i, messages) == [k \in 1..Len(messages) |-> [line |-> i, message |-> messages[k]]]
Repeat(i, n) == [k \in 1..n |-> i]

-----------------------------------------------------------------------------
(* The main script: three statements run in order, before any event *)

CreateInterface ==
  /\ pc = "createInterface"
  /\ pc' = "sendInfo"
  /\ UNCHANGED << server, env, inputOpen, input, handlers, microtasks, draining,
                  stdout, origin, stderr, called, requested, atClose, thrown, settled >>

\* A script that registers its listener without printing the manifest.
SendServerInfo_Silent ==
  /\ pc = "sendInfo"
  /\ pc' = "registerListener"
  /\ UNCHANGED << server, env, inputOpen, input, handlers, microtasks, draining,
                  stdout, origin, stderr, called, requested, atClose, thrown, settled >>

SendServerInfo ==
  /\ pc = "sendInfo"
  /\ stdout' = Append(stdout, Manifest(server))
  /\ origin' = Append(origin, 0)
  /\ pc' = "registerListener"
  /\ UNCHANGED << server, env, inputOpen, input, handlers, microtasks, draining,
                  stderr, called, requested, atClose, thrown, settled >>

RegisterListener ==
  /\ pc = "registerListener"
  /\ pc' = "ready"
  /\ UNCHANGED << server, env, inputOpen, input, handlers, microtasks, draining,
                  stdout, origin, stderr, called, requested, atClose, thrown, settled >>

-----------------------------------------------------------------------------
(* Events *)

\* A loop that reads the next line only when no listener is suspended.
CanAcceptLine_Serial ==
  /\ pc = "ready"
  /\ inputOpen
  /\ ~draining
  /\ DOMAIN handlers = {}

\* readline emits the 'line' events of one chunk back to back, so a line may
\* arrive while continuations of earlier lines are queued, but not once the
\* queue has started to run; it never waits for a suspended listener.
CanAcceptLine ==
  /\ pc = "ready"
  /\ inputOpen
  /\ ~draining

\* The message of the error raised by a settled try block, if any.
Raised(thr, i, attempt) ==
  IF attempt.state = "rejected" THEN With(thr, i, attempt.message) ELSE thr

\* rl.on('line', ...) up to the listener's first await, for a line drawn from
\* the set L in a run of at most n lines.
LineFrom(L, n) ==
  /\ CanAcceptLine
  /\ Len(input) < n
  /\ \E line \in L :
       LET i == Len(input) + 1
           effect == onLine(server, env, line)
       IN  /\ input' = Append(input, line)
           /\ stdout' = stdout \o effect.stdout
           /\ origin' = origin \o Repeat(i, Len(effect.stdout))
           /\ stderr' = stderr \o Tag(i, effect.stderr)
           /\ IF effect.dispatched
              THEN /\ called' = called \cup {i}
                   /\ handlers' = With(handlers, i,
                        [request |-> effect.request, promise |-> effect.promise])
                   /\ thrown' = Raised(thrown, i,
                        tryBlock(server, env, effect.request.name,
                                 effect.request.arguments))
                   /\ IF effect.promise.state = "pending"
                      THEN /\ requested' = requested \cup {i}
                           /\ microtasks' = microtasks
                      ELSE /\ requested' = requested
                           /\ microtasks' = Append(microtasks, i)
              ELSE UNCHANGED << called, handlers, thrown, requested, microtasks >>
  /\ UNCHANGED << server, env, pc, inputOpen, draining, atClose, settled >>

\* The HTTP request of the suspended listener of line i completes;
\* executeFunction runs to its return and the listener is queued to continue.
CompletesOf(i) ==
  /\ pc = "ready"
  /\ microtasks = <<>>
  /\ i \in DOMAIN handlers
  /\ handlers[i].promise.state = "pending"
  /\ \E outcome \in Outcomes(handlers[i].promise.call) :
       /\ handlers' = [handlers EXCEPT ![i].promise =
                         executeFunctionResume(handlers[i].request.name, outcome)]
       /\ thrown' = Raised(thrown, i, tryResume(handlers[i].request.name, outcome))
       /\ settled' = With(settled, i, outcome)
  /\ microtasks' = <<i>>
  /\ draining' = TRUE
  /\ UNCHANGED << server, env, pc, inputOpen, input, stdout, origin, stderr,
                  called, requested, atClose >>

Line == LineFrom(Lines(server), MaxLines)

Completes == \E i \in 1..MaxLines : CompletesOf(i)

\* A server that counts: once it has written a Response it answers every
\* later request with an error.
Continue_Counting ==
  /\ pc = "ready"
  /\ microtasks # <<>>
  /\ LET i == Head(microtasks)
         effect == onLineResume(server, handlers[i].request, handlers[i].promise)
         written == IF Len(stdout) > 1 /\ effect.stdout # <<>>
                    THEN <<ErrorLine(handlers[i].request.id, "Too many requests")>>
                    ELSE effect.stdout
     IN  /\ stdout' = stdout \o written
         /\ origin' = origin \o Repeat(i, Len(written))
         /\ stderr' = stderr \o Tag(i, effect.stderr)
         /\ handlers' = Without(handlers, i)
         /\ pc' = IF effect.uncaught THEN "crashed" ELSE pc
  /\ microtasks' = Tail(microtasks)
  /\ draining' = (Tail(microtasks) # <<>>)
  /\ UNCHANGED << server, env, inputOpen, input, called, requested, atClose, thrown, settled >>

\* A scheduler that resumes the listener queued last.
Continue_NewestFirst ==
  /\ pc = "ready"
  /\ microtasks # <<>>
  /\ LET i == microtasks[Len(microtasks)]
         effect == onLineResume(server, handlers[i].request, handlers[i].promise)
     IN  /\ stdout' = stdout \o effect.stdout
         /\ origin' = origin \o Repeat(i, Len(effect.stdout))
         /\ stderr' = stderr \o Tag(i, effect.stderr)
         /\ handlers' = Without(handlers, i)
         /\ pc' = IF effect.uncaught THEN "crashed" ELSE pc
  /\ microtasks' = SubSeq(microtasks, 1, Len(microtasks) - 1)
  /\ draining' = (Len(microtasks) > 1)
  /\ UNCHANGED << server, env, inputOpen, input, called, requested, atClose, thrown, settled >>

\* A listener that keeps quiet when a Response with the request's id has
\* already been written.
Continue_Deduplicating ==
  /\ pc = "ready"
  /\ microtasks # <<>>
  /\ LET i == Head(microtasks)
         effect == onLineResume(server, handlers[i].request, handlers[i].promise)
         seen == \E k \in 1..Len(stdout) :
                   "id" \in DOMAIN stdout[k] /\ stdout[k].id = handlers[i].request.id
         written == IF seen THEN <<>> ELSE effect.stdout
     IN  /\ stdout' = stdout \o written
         /\ origin' = origin \o Repeat(i, Len(written))
         /\ stderr' = stderr \o Tag(i, effect.stderr)
         /\ handlers' = Without(handlers, i)
         /\ pc' = IF effect.uncaught THEN "crashed" ELSE pc
  /\ microtasks' = Tail(microtasks)
  /\ draining' = (Tail(microtasks) # <<>>)
  /\ UNCHANGED << server, env, inputOpen, input, called, requested, atClose, thrown, settled >>

\* The listener at the head of the microtask queue continues after its await.
Continue ==
  /\ pc = "ready"
  /\ microtasks # <<>>
  /\ LET i == Head(microtasks)
         effect == onLineResume(server, handlers[i].request, handlers[i].promise)
     IN  /\ stdout' = stdout \o effect.stdout
         /\ origin' = origin \o Repeat(i, Len(effect.stdout))
         /\ stderr' = stderr \o Tag(i, effect.stderr)
         /\ handlers' = Without(handlers, i)
         /\ pc' = IF effect.uncaught THEN "crashed" ELSE pc
  /\ microtasks' = Tail(microtasks)
  /\ draining' = (Tail(microtasks) # <<>>)
  /\ UNCHANGED << server, env, inputOpen, input, called, requested, atClose, thrown, settled >>

\* stdin reaches end-of-input; readline closes.  An unterminated last line
\* is delivered in the same turn, so listeners may still be queued.
Close ==
  /\ pc = "ready"
  /\ inputOpen
  /\ ~draining
  /\ inputOpen' = FALSE
  /\ atClose' = DOMAIN handlers
  /\ UNCHANGED << server, env, pc, input, handlers, microtasks, draining,
                  stdout, origin, stderr, called, requested, thrown, settled >>

\* A process that exits as soon as stdin has ended.
CanExit_WhenIdle ==
  /\ pc = "ready"
  /\ DOMAIN handlers = {}
  /\ microtasks = <<>>

CanExit_OnClose ==
  /\ pc = "ready"
  /\ ~inputOpen

\* Node exits when nothing is left to wait for: stdin has ended, no HTTP
\* request is outstanding and no continuation is queued.
CanExit ==
  /\ pc = "ready"
  /\ ~inputOpen
  /\ DOMAIN handlers = {}
  /\ microtasks = <<>>

Exit ==
  /\ CanExit
  /\ pc' = "exited"
  /\ UNCHANGED << server, env, inputOpen, input, handlers, microtasks, draining,
                  stdout, origin, stderr, called, requested, atClose, thrown, settled >>

Next ==
  \/ CreateInterface
  \/ SendServerInfo
  \/ RegisterListener
  \/ Line
  \/ Completes
  \/ Continue
  \/ Close
  \/ Exit

Spec == Init /\ [][Next]_vars

\* Every queued continuation is run, every HTTP request completes or fails,
\* and a process with nothing left to wait for exits.
FairSpec == Spec /\ WF_vars(Continue) /\ WF_vars(Completes) /\ WF_vars(Exit)

\* The same program given one function request from RequestLines.
Request == LineFrom(RequestLines(server), 1)

RequestNext ==
  \/ CreateInterface
  \/ SendServerInfo
  \/ RegisterListener
  \/ Request
  \/ Completes
  \/ Continue
  \/ Close
  \/ Exit

RequestSpec == Init /\ [][RequestNext]_vars

TypeOK ==
  /\ pc \in {"createInterface", "sendInfo", "registerListener", "ready", "exited", "crashed"}
  /\ Len(origin) = Len(stdout)
  /\ Len(input) <= MaxLines

-----------------------------------------------------------------------------
(* Vocabulary of the properties *)

\* The positions on stdout of the lines caused by input line i.
Answers(i) == {k \in 1..Len(stdout) : origin[k] = i}

\* The diagnostics caused by input line i.
Diagnostics(i) == {k \in 1..Len(stderr) : stderr[k].line = i}

Arrived(i) == i <= Len(input)

\* Input line i is the text of a JSON value.
IsJson(i) == input[i].wellFormed

\* Input line i parses to a request with type "function".
IsFunctionLine(i) ==
  /\ input[i].wellFormed
  /\ input[i].value.sort = "object"
  /\ input[i].value.type = "function"

FunctionLineAt(i) == Arrived(i) /\ IsFunctionLine(i)

\* A member of a decoded line, Undefined when the line has no such member.
IdOf(l) == IF "id" \in DOMAIN l THEN l.id ELSE Undefined

\* A terminal Response: result or error, and no partial member.
IsTerminal(l) ==
  /\ ("result" \in DOMAIN l) \/ ("error" \in DOMAIN l)
  /\ "partial" \notin DOMAIN l

IsPartial(l) == "partial" \in DOMAIN l

\* The listener of line i has run to its end.
Finished(i) == Arrived(i) /\ i \notin DOMAIN handlers

\* The id of the request on input line i, Undefined when it has none.
RequestId(i) ==
  IF input[i].wellFormed /\ input[i].value.sort = "object"
  THEN input[i].value.id ELSE Undefined

\* Line i has been answered by exactly one terminal Response with its id.
Answered(i) ==
  /\ Cardinality(Answers(i)) = 1
  /\ \A k \in Answers(i) :
       IsTerminal(stdout[k]) /\ IdOf(stdout[k]) = RequestId(i)

HasResult(l) == "result" \in DOMAIN l
HasError(l) == "error" \in DOMAIN l

\* The listeners suspended on an HTTP request.
PendingCalls == {i \in DOMAIN handlers : handlers[i].promise.state = "pending"}

\* Requests: input lines that name an advertised tool / any other name.
NamesTool(i) == input[i].value.name \in ToolNames(server)

-----------------------------------------------------------------------------
(* C1 *)

C1_AtMostOneTerminal ==
  \A i \in 1..Len(input) :
    IsFunctionLine(i) =>
      /\ Cardinality(Answers(i)) <= 1
      /\ \A k \in Answers(i) :
           /\ ~IsPartial(stdout[k])
           /\ IsTerminal(stdout[k])
           /\ IdOf(stdout[k]) = RequestId(i)
      /\ Finished(i) => Answered(i)

\* C1: in each server every input line that parses to a function request is
\* eventually answered by exactly one terminal Response carrying the request's
\* id (given that every external call completes or fails), and never by a
\* second terminal Response or by a partial one.
C1_ExactlyOneTerminalResponse ==
  /\ [] C1_AtMostOneTerminal
  /\ \A i \in 1..MaxLines : FunctionLineAt(i) ~> (FunctionLineAt(i) /\ Answered(i))

\* Two function requests, one of which failed, have both been answered.
C1_Witness ==
  /\ Len(input) = 2
  /\ IsFunctionLine(1) /\ IsFunctionLine(2)
  /\ Answered(1) /\ Answered(2)
  /\ DOMAIN thrown # {}

-----------------------------------------------------------------------------
(* C2 *)

Manifests == {k \in 1..Len(stdout) : IsManifest(stdout[k])}

\* C2: exactly one Manifest line is emitted in a run; it is the first line on
\* stdout and is there before any input line is handled, hence before any
\* Response.
C2_ManifestOnceAndFirst ==
  /\ Cardinality(Manifests) <= 1
  /\ stdout # <<>> => stdout[1] = Manifest(server) /\ Manifests = {1}
  /\ pc \in {"ready", "exited"} => Manifests = {1}
  /\ (input # <<>> \/ stderr # <<>> \/ called # {}) => Manifests = {1}

\* The run is over, lines were handled and Responses follow the Manifest.
C2_Witness ==
  /\ pc = "exited"
  /\ Len(input) = MaxLines
  /\ Len(stdout) >= 3
  /\ IsManifest(stdout[1])

-----------------------------------------------------------------------------
(* C3 *)

UnknownNameAt(i) == FunctionLineAt(i) /\ ~NamesTool(i)

-----------------------------------------------------------------------------
(* C4 *)

\* The handler of a known operation failed on line i: it threw, or the HTTP
\* request it awaited failed.
HandlerFailedAt(i) == FunctionLineAt(i) /\ NamesTool(i) /\ i \in DOMAIN thrown

-----------------------------------------------------------------------------
(* C5 *)

C5_StillReady ==
  /\ pc # "crashed"
  /\ pc = "exited" => ~inputOpen
  /\ (DOMAIN thrown # {} /\ inputOpen) =>
       /\ pc = "ready"
       /\ (~draining /\ Len(input) < MaxLines) => ENABLED Line

\* C5: no handler failure ends the process or stops the loop: after requests
\* whose handlers failed the server is still ready, takes the next line, and
\* answers a function request that follows a failed one.
C5_FailureIsNotFatal ==
  /\ [] C5_StillReady
  /\ \A j \in 1..MaxLines :
       (FunctionLineAt(j) /\ \E i \in 1..(j - 1) : i \in DOMAIN thrown)
          ~> (FunctionLineAt(j) /\ Answered(j))

\* A request failed and was answered, and the request after it succeeded.
C5_Witness ==
  /\ Len(input) = 2
  /\ 1 \in DOMAIN thrown /\ Answered(1)
  /\ IsFunctionLine(2) /\ 2 \notin DOMAIN thrown /\ Answered(2)
  /\ inputOpen /\ pc = "ready"

-----------------------------------------------------------------------------
(* C6 *)

MalformedAt(i) == Arrived(i) /\ ~input[i].wellFormed

C6_NoResponse ==
  \A i \in 1..Len(input) :
    MalformedAt(i) =>
      /\ Answers(i) = {}
      /\ Cardinality(Diagnostics(i)) = 1
      /\ i \notin called
      /\ pc # "crashed"

\* C6: a line that is not valid JSON gets no Response on stdout and one
\* diagnostic on stderr, and the loop goes on: a function request that arrives
\* after it is answered.
C6_MalformedLineIsLogged ==
  /\ [] C6_NoResponse
  /\ \A j \in 1..MaxLines :
       (FunctionLineAt(j) /\ \E i \in 1..(j - 1) : MalformedAt(i))
          ~> (FunctionLineAt(j) /\ Answered(j))

\* A malformed line was logged and the function request after it answered.
C6_Witness ==
  /\ Len(input) = 2
  /\ MalformedAt(1) /\ Diagnostics(1) # {}
  /\ IsFunctionLine(2) /\ Answered(2)

-----------------------------------------------------------------------------
(* C7 *)

\* Line i is JSON whose type is not "function": null, a number, an object of
\* another type or an object without type.
OtherTypeAt(i) == Arrived(i) /\ IsJson(i) /\ ~IsFunctionLine(i)

\* C7: a line that parses as JSON but whose type is not "function" gets no
\* Response and executeFunction is not invoked for it.
C7_OtherTypesIgnored ==
  \A i \in 1..Len(input) :
    OtherTypeAt(i) =>
      /\ Answers(i) = {}
      /\ i \notin called
      /\ i \notin DOMAIN handlers

\* The run is over after the value null and an object of another type.
C7_Witness ==
  /\ pc = "exited"
  /\ Len(input) = 2
  /\ OtherTypeAt(1) /\ input[1].value.sort = "null"
  /\ OtherTypeAt(2) /\ input[2].value.sort = "object"
  /\ Len(stdout) = 1

-----------------------------------------------------------------------------
(* C8 *)

\* C8: every Response line carries the id of the request that caused it (no
\* id member when the request has none) and exactly one of the top-level
\* members result and error.
C8_IdAndOneOfResultError ==
  \A k \in 1..Len(stdout) :
    origin[k] # 0 =>
      /\ IdOf(stdout[k]) = RequestId(origin[k])
      /\ HasResult(stdout[k]) # HasError(stdout[k])

\* A request without id and a request with id "1" that failed were answered.
C8_Witness ==
  /\ server = Minimal
  /\ \E k \in 1..Len(stdout) : origin[k] # 0 /\ "id" \notin DOMAIN stdout[k]
  /\ \E k \in 1..Len(stdout) : HasError(stdout[k]) /\ IdOf(stdout[k]) = "1"

-----------------------------------------------------------------------------
(* C9 *)

Remote == server \in {Kaggle, HuggingFace}

C9_NotBlocked ==
  (Remote /\ PendingCalls # {}) =>
    /\ pc = "ready"
    /\ (inputOpen /\ ~draining /\ Len(input) < MaxLines) => ENABLED Line
    /\ microtasks = <<>> => \A i \in PendingCalls : ENABLED CompletesOf(i)

C9_StartedBeside ==
  (Remote /\ PendingCalls # {} /\ Len(input') = Len(input) + 1) =>
    /\ PendingCalls \subseteq PendingCalls'
    /\ stdout' = stdout
    /\ IsFunctionLine(Len(input))' => Len(input') \in called'

\* C9: in the Kaggle and HuggingFace servers, while the handler of a request
\* is suspended on its HTTP request a later line is accepted and its handler
\* started at once, and whichever of the suspended handlers completes first
\* answers first.
C9_ConcurrentHandlers ==
  /\ [] C9_NotBlocked
  /\ [][C9_StartedBeside]_vars

\* The second request was answered before the first.
C9_Witness ==
  /\ Remote
  /\ \E k \in 1..Len(stdout) : \E m \in 1..Len(stdout) :
       k < m /\ origin[k] = 2 /\ origin[m] = 1

-----------------------------------------------------------------------------
(* C10 *)

C10_NotAborted ==
  /\ \A i \in atClose : i \in DOMAIN handlers \/ Answered(i)
  /\ (~inputOpen /\ DOMAIN handlers # {}) => pc = "ready"
  /\ pc = "exited" =>
       \A i \in 1..Len(input) : IsFunctionLine(i) => Answered(i)

\* C10: a handler dispatched before stdin ended is never aborted: every
\* request in flight at end-of-input still gets its terminal Response, and the
\* process does not exit before that.
C10_InFlightSurvivesClose ==
  /\ [] C10_NotAborted
  /\ \A i \in 1..MaxLines : (i \in atClose) ~> (i \in atClose /\ Answered(i))

\* The process exited after answering requests in flight at end-of-input.
C10_Witness ==
  /\ pc = "exited"
  /\ Cardinality(atClose) = 2
  /\ \A i \in atClose : Answered(i)

-----------------------------------------------------------------------------
(* C11 *)

Terminated == pc = "exited"

\* Input has ended and no handler is in flight or about to resume.
InputClosedAndIdle ==
  /\ ~inputOpen
  /\ DOMAIN handlers = {}
  /\ microtasks = <<>>

\* C11: once input has ended and every handler in flight has completed, the
\* process terminates; a terminated process takes no further line and writes
\* nothing more; and while input is open the process is never terminated.
C11_TerminatesOnlyAfterClose ==
  /\ [](inputOpen => ~Terminated /\ pc # "crashed")
  /\ InputClosedAndIdle ~> Terminated
  /\ [][Terminated => /\ Terminated'
                      /\ UNCHANGED << input, stdout, stderr >>]_vars

\* The process terminated after input ended while a request was in flight,
\* and that request's Response is the last line it wrote.
C11_Witness ==
  /\ Terminated
  /\ atClose # {}
  /\ origin[Len(stdout)] \in atClose

-----------------------------------------------------------------------------
(* C12 *)

Ids == {"1", "2"}

\* The function requests that arrived with id x, and those of them whose
\* handler has run to its end.
RequestsWithId(x) == {i \in 1..Len(input) : IsFunctionLine(i) /\ RequestId(i) = x}
FinishedWithId(x) == {i \in RequestsWithId(x) : i \notin DOMAIN handlers}

\* The terminal Responses written with id x.
ResponsesWithId(x) ==
  {k \in 1..Len(stdout) : IsTerminal(stdout[k]) /\ IdOf(stdout[k]) = x}

\* C12: ids are not deduplicated: for every id, each function request with
\* that id whose handler has finished has its own terminal Response with that
\* id, so N requests sharing an id end with exactly N such Responses.
C12_NoDeduplication ==
  \A x \in Ids :
    /\ Cardinality(ResponsesWithId(x)) = Cardinality(FinishedWithId(x))
    /\ \A i \in FinishedWithId(x) : Answered(i)
    /\ Terminated => Cardinality(ResponsesWithId(x)) = Cardinality(RequestsWithId(x))

\* Two requests arrived with the same id and two Responses carry it.
C12_Witness ==
  \E x \in Ids :
    /\ Cardinality(RequestsWithId(x)) = 2
    /\ Cardinality(ResponsesWithId(x)) = 2
    /\ Terminated

-----------------------------------------------------------------------------
(* C13 *)

\* Line i asks the minimal server to calculate and brings arguments.
CalculateAt(i) ==
  /\ server = Minimal
  /\ FunctionLineAt(i)
  /\ input[i].value.name = "calculate"
  /\ input[i].value.arguments.sort = "object"

ArgumentsAt(i) == input[i].value.arguments

DivideByZeroAt(i) ==
  /\ CalculateAt(i)
  /\ ArgumentsAt(i).operation = "divide"
  /\ ArgumentsAt(i).b = 0

\* C13: in the minimal server a calculate request with operation "divide" and
\* b = 0 is answered, whatever a is, by the single Response
\* { id, error: "Cannot divide by zero" } without a result member; the error
\* is raised by the test of b, before any quotient is computed.
C13_DivideByZeroIsAnError ==
  \A i \in 1..Len(input) :
    DivideByZeroAt(i) =>
      /\ i \in DOMAIN thrown /\ thrown[i] = "Cannot divide by zero"
      /\ \A k \in Answers(i) :
           /\ stdout[k] = [id |-> RequestId(i), error |-> "Cannot divide by zero"]
           /\ ~HasResult(stdout[k])
      /\ Cardinality(Answers(i)) = IF Finished(i) THEN 1 ELSE 0

\* A division of a negative number by zero has been answered.
C13_Witness ==
  \E i \in 1..Len(input) :
    /\ DivideByZeroAt(i)
    /\ ArgumentsAt(i).a < 0
    /\ Finished(i)
    /\ \E k \in Answers(i) : HasError(stdout[k])

-----------------------------------------------------------------------------
(* C14 *)

\* b is not zero and divides a.
Divides(b, a) == b # 0 /\ \E r \in Numbers : r * b = a

\* The integer the arithmetic of the claim assigns to a request.
Expected(args) ==
  IF args.operation = "add" THEN args.a + args.b
  ELSE IF args.operation = "subtract" THEN args.a - args.b
  ELSE IF args.operation = "multiply" THEN args.a * args.b
  ELSE CHOOSE r \in Numbers : r * args.b = args.a

ArithmeticAt(i) ==
  /\ CalculateAt(i)
  /\ ArgumentsAt(i).operation \in Operations
  /\ ArgumentsAt(i).operation = "divide" => Divides(ArgumentsAt(i).b, ArgumentsAt(i).a)

\* C14: in the minimal server calculate over integers a and b answers
\* { id, result: { result: r } } where r is a + b, a - b, a * b or, when b is
\* not zero and divides a, the integer a / b.
C14_CalculateArithmetic ==
  \A i \in 1..Len(input) :
    ArithmeticAt(i) =>
      /\ \A k \in Answers(i) :
           stdout[k] = [id |-> RequestId(i),
                        result |-> [result |-> Num(Expected(ArgumentsAt(i)))]]
      /\ Cardinality(Answers(i)) = IF Finished(i) THEN 1 ELSE 0

\* 4 divided by 2 has been answered with 2.
C14_Witness ==
  \E i \in 1..Len(input) :
    /\ ArithmeticAt(i)
    /\ ArgumentsAt(i).a = 4 /\ ArgumentsAt(i).b = 2
    /\ ArgumentsAt(i).operation = "divide"
    /\ \E k \in Answers(i) : stdout[k].result.result = <<2, 1>>

-----------------------------------------------------------------------------
(* C15 *)

\* The tool list of a manifest is well formed: no two entries share a name and
\* every required parameter is declared among the properties.
WellFormedTools(list) ==
  /\ \A i \in 1..Len(list) : \A j \in 1..Len(list) :
       list[i].name = list[j].name => i = j
  /\ \A i \in 1..Len(list) : list[i].required \subseteq list[i].properties

C15_ManifestsWellFormed ==
  \A k \in Manifests : WellFormedTools(stdout[k].tools)

\* An emitted manifest stays as it was written, and so does the table the
\* server dispatches on.
C15_ToolsFixed ==
  \A k \in Manifests :
    /\ k \in Manifests'
    /\ stdout'[k].tools = stdout[k].tools
    /\ tools(server') = stdout[k].tools

\* C15: in every manifest the tool names are pairwise distinct and every
\* required parameter is a key of properties, and the tool list is the same
\* after every later step as when it was emitted.
C15_ManifestToolsWellFormedAndFixed ==
  /\ [] C15_ManifestsWellFormed
  /\ [][C15_ToolsFixed]_vars

\* The HuggingFace manifest is on stdout, followed by a Response.
C15_Witness ==
  /\ server = HuggingFace
  /\ Manifests = {1}
  /\ Len(stdout[1].tools) = 2
  /\ Len(stdout) > 1

-----------------------------------------------------------------------------
(* C16 *)

NameAt(i) == input[i].value.name

\* The handler of line i raised the error of the switch's default case.
DefaultBranchAt(i) ==
  i \in DOMAIN thrown /\ thrown[i] = "Unknown function: " \o NameAt(i)

\* The handler of line i entered the case of a tool: it started the tool's
\* HTTP request, raised an error other than that of the default case, or (in
\* the minimal server, whose cases return at once) returned a value.
ToolBranchAt(i) ==
  \/ i \in requested
  \/ i \in DOMAIN thrown /\ thrown[i] # "Unknown function: " \o NameAt(i)
  \/ server = Minimal /\ i \in called /\ i \notin DOMAIN thrown

\* Every credential variable the server reads is set; the minimal server
\* reads none.
SwitchReached == EnvVars(server) \subseteq env

\* The claim as stated, without regard to the credentials.
C16_DispatchAgreesAlways ==
  \A i \in 1..Len(input) :
    IsFunctionLine(i) =>
      /\ ToolBranchAt(i) <=> NamesTool(i)
      /\ ~NamesTool(i) => DefaultBranchAt(i)

\* C16: when the credentials the server reads are set (always, in the minimal
\* server), a function request enters the case of a tool exactly if its name
\* is listed in the manifest, and takes the "Unknown function" default
\* exactly if it is not; when they are not set it enters neither.
C16_DispatchAgreesWithManifest ==
  \A i \in 1..Len(input) :
    IsFunctionLine(i) =>
      IF SwitchReached
      THEN /\ ToolBranchAt(i) <=> NamesTool(i)
           /\ DefaultBranchAt(i) <=> ~NamesTool(i)
      ELSE ~ToolBranchAt(i) /\ ~DefaultBranchAt(i)

\* The Kaggle server, credentials set, was sent the name of a HuggingFace
\* tool and took the default case.
C16_Witness ==
  /\ server = Kaggle
  /\ SwitchReached
  /\ \E i \in 1..Len(input) :
       /\ IsFunctionLine(i)
       /\ NameAt(i) \in ToolNames(HuggingFace)
       /\ DefaultBranchAt(i)
       /\ Finished(i)

-----------------------------------------------------------------------------
(* C17 *)

\* Some credential variable the server reads is not set.
CredentialsMissing == Remote /\ EnvVars(server) \ env # {}

\* C17: in the Kaggle and HuggingFace servers, when a credential variable is
\* not set, no function request starts an external call, and every function
\* request whose handler has finished is answered once, with its id and with
\* result { error: <the credentials-not-set message> }, whatever its name.
C17_NoCredentialsNoCall ==
  CredentialsMissing =>
    /\ requested = {}
    /\ \A i \in 1..Len(input) :
         IsFunctionLine(i) =>
           /\ Cardinality(Answers(i)) = IF Finished(i) THEN 1 ELSE 0
           /\ \A k \in Answers(i) :
                /\ IdOf(stdout[k]) = RequestId(i)
                /\ ~HasError(stdout[k])
                /\ HasResult(stdout[k])
                /\ stdout[k].result = [error |-> CredentialsMessage(server)]

\* The Kaggle server, with one of its two variables set, has answered a
\* request for an advertised tool and a request for an unknown name.
C17_Witness ==
  /\ server = Kaggle
  /\ Cardinality(env) = 1
  /\ \E i \in 1..Len(input) : \E j \in 1..Len(input) :
       /\ IsFunctionLine(i) /\ NamesTool(i) /\ Answered(i)
       /\ IsFunctionLine(j) /\ ~NamesTool(j) /\ Answered(j)

-----------------------------------------------------------------------------
(* C18 *)

\* C18: the minimal server writes its Responses in the order in which the
\* requests arrived, whether they succeed or fail: of two Responses the
\* earlier one answers the earlier line.
C18_MinimalAnswersInOrder ==
  server = Minimal =>
    /\ \A k \in 1..Len(stdout) : \A m \in 1..Len(stdout) :
         k < m => origin[k] < origin[m]
    /\ \A i \in 1..Len(input) : \A j \in 1..Len(input) :
         (i < j /\ IsFunctionLine(i) /\ Answered(j)) => Answered(i)

\* Two requests were taken back to back; the first failed, the second
\* succeeded, and they were answered in that order.
C18_Witness ==
  /\ server = Minimal
  /\ Len(stdout) = 3
  /\ origin = <<0, 1, 2>>
  /\ HasError(stdout[2])
  /\ HasResult(stdout[3])

-----------------------------------------------------------------------------
(* C19 *)

\* What a Response says apart from the id it carries.
Content(l) == [f \in DOMAIN l \ {"id"} |-> l[f]]

\* Lines i and j make the same request (name and arguments; the environment
\* is that of the process), and their external calls, if any, had the same
\* outcome.
SameRequest(i, j) ==
  /\ NameAt(i) = NameAt(j)
  /\ ArgumentsAt(i) = ArgumentsAt(j)

SameOutcome(i, j) ==
  /\ i \in DOMAIN settled <=> j \in DOMAIN settled
  /\ i \in DOMAIN settled => settled[i] = settled[j]

\* C19: no state is kept between requests: two function requests with the
\* same name and arguments whose external calls had the same outcome get
\* Responses of the same content, whatever lines came before or between them
\* and in whatever order they were answered.
C19_Stateless ==
  \A i \in 1..Len(input) : \A j \in 1..Len(input) :
    ( /\ i < j
      /\ IsFunctionLine(i) /\ IsFunctionLine(j)
      /\ Finished(i) /\ Finished(j)
      /\ SameRequest(i, j) /\ SameOutcome(i, j) ) =>
        /\ Cardinality(Answers(i)) = Cardinality(Answers(j))
        /\ \A k \in Answers(i) : \A m \in Answers(j) :
             Content(stdout[k]) = Content(stdout[m])

\* The same request was made twice, both external calls returned the same
\* body, the second was answered first, and both Responses say the same.
C19_Witness ==
  /\ Remote
  /\ Len(input) = 2
  /\ IsFunctionLine(1) /\ IsFunctionLine(2)
  /\ SameRequest(1, 2) /\ SameOutcome(1, 2)
  /\ 1 \in DOMAIN settled /\ settled[1].ok
  /\ Len(stdout) = 3
  /\ origin = <<0, 2, 1>>
  /\ Content(stdout[2]) = Content(stdout[3])

-----------------------------------------------------------------------------
(* C20 *)

\* Line i names an advertised tool and has no arguments member.
NoArgumentsAt(i) ==
  /\ FunctionLineAt(i)
  /\ NamesTool(i)
  /\ ArgumentsAt(i) = NoArgs

\* The Response reports a failure in the way of the server that wrote it.
ReportsFailure(l) ==
  IF server = Minimal
  THEN HasError(l) /\ ~HasResult(l)
  ELSE HasResult(l) /\ ~HasError(l) /\ "error" \in DOMAIN l.result

\* C20: a function request that names an advertised tool but has no
\* arguments member neither crashes the process nor is dropped: once its
\* handler has finished there is exactly one Response for it, with its id,
\* reporting failure (a top-level error in the minimal server, an error
\* member of result in the other two), and nothing on stderr; the process
\* does not terminate without it.
C20_MissingArgumentsAnswered ==
  \A i \in 1..Len(input) :
    NoArgumentsAt(i) =>
      /\ pc # "crashed"
      /\ Diagnostics(i) = {}
      /\ Cardinality(Answers(i)) = IF Finished(i) THEN 1 ELSE 0
      /\ \A k \in Answers(i) :
           /\ IsTerminal(stdout[k])
           /\ IdOf(stdout[k]) = RequestId(i)
           /\ ReportsFailure(stdout[k])
      /\ Terminated => Finished(i)

\* generate_text was requested without arguments from a HuggingFace server
\* whose token is set, and was answered.
C20_Witness ==
  /\ server = HuggingFace
  /\ SwitchReached
  /\ \E i \in 1..Len(input) :
       /\ NoArgumentsAt(i)
       /\ NameAt(i) = "generate_text"
       /\ Answered(i)
       /\ Terminated

====
